---- MODULE Spec2Model ----
(***************************************************************************)
(* A model of the simulated physical layer (virtual medium) of the         *)
(* networking repository: phyAlloc, phyConfigure, phyConnect,              *)
(* phyPropagate (with phyPropagateFromSocket and writeToSocket),           *)
(* phyShutdown and phyFree, together with the part of the operating        *)
(* system they use: the descriptor table of the process, socket pairs      *)
(* with bounded transport queues, and an epoll instance.                   *)
(*                                                                         *)
(* The sockets are the blocking AF_UNIX stream sockets that socketpair     *)
(* returns: a system call that cannot complete is an action that is not    *)
(* enabled, and phyPropagate is therefore modelled one system call per     *)
(* step, so that the owners of the external halves can act while the       *)
(* medium waits.                                                           *)
(***************************************************************************)
EXTENDS Integers, Sequences, FiniteSets

\* ------------------------------------------------------------------------
\* Program constants, scaled down from the values of the source
\* (256, 16 and 4096) so that the table can fill, one poll can return fewer
\* events than there are ready endpoints, and data can span several chunks.
MAX_PHY_ENDPOINTS == 3
MAX_EPOLL_EVENTS == 2
PHY_BUFFER_SIZE == 2

\* Bounds of the model.
\* Number of descriptors the process may hold (RLIMIT_NOFILE).
NOFILE == 10
\* Bytes one direction of a socket pair holds before write blocks.
SOCK_CAPACITY == 3
\* Bytes written on the external halves in total, over the whole run.
MaxWrite == 4
\* Scratch buffers counted; the count stays at this value once it is reached.
MaxScratch == 2
\* Calls of phyConfigure in one run.
MaxConfigure == 2
\* Largest capacity of a circular buffer.
MaxCap == 8
\* Largest item size asked of bufferItems.
MaxItem == 3
\* Largest count asked of bufferRead.
MaxRead == 3

VARIABLES
    st,           \* lifecycle of the medium / the process
    diag,         \* the diagnostic the process printed before it ended
    clients,      \* phy->clients
    epoll,        \* phy->epoll
    sockets,      \* phy->sockets
    fdtab,        \* descriptor table of the process
    rcv,          \* per descriptor: bytes queued for reading from it
    reg,          \* epoll registrations: records [ep, fd, data]
    pc,           \* position of the caller inside phyPropagate
    events,       \* phy->events[0 .. pendingEvents-1].data.fd
    ei,           \* 1-based position in events (i of phyPropagate, plus 1)
    buffer,       \* the chunk phyPropagateFromSocket last read
    ri,           \* i of phyPropagateFromSocket: the recipient slot
    sizeWritten,  \* sizeWritten of writeToSocket
    woken,        \* the write() under way was asleep when its peer was closed
    wrote,        \* per slot: bytes written so far on the external half
    got,          \* per slot: bytes delivered so far to the external half
    pend0,        \* per slot: bytes pending when the current tick polled
    got0,         \* got, as it was when the current tick polled
    nbytes,       \* number of bytes written on external halves so far
    nconf,        \* number of phyConfigure calls made so far
    scratch,      \* scratch buffers of phyPropagateFromSocket allocated, not freed
    handle,       \* the Buffer the caller holds: "null" or "buf"
    circ,         \* the struct CircularBuffer allocated last
    frees,        \* free() calls made so far on the data store of circ
    bcall,        \* the last buffer call: name, argument, value returned
    output        \* the memory the caller passes to bufferRead

vars == <<st, diag, clients, epoll, sockets, fdtab, rcv, reg, pc, events, ei,
          buffer, ri, sizeWritten, woken, wrote, got, pend0, got0, nbytes, nconf, scratch,
          handle, circ, frees, bcall, output>>

phyVars == <<clients, epoll, sockets>>
kernelVars == <<fdtab, rcv, reg>>
callVars == <<pc, events, ei, buffer, ri, sizeWritten, woken>>
histVars == <<wrote, got>>
tickVars == <<pend0, got0, nbytes>>
bufVars == <<handle, circ, frees, bcall, output>>

Fd == 0 .. (NOFILE - 1)
Slot == 0 .. (MAX_PHY_ENDPOINTS - 1)

Min(a, b) == IF a <= b THEN a ELSE b

\* ------------------------------------------------------------------------
\* The operating system.

\* An entry of the descriptor table: what the descriptor names, for a socket
\* the descriptor of its peer (-1: none, or closed), and whether the socket
\* has a pending error (ECONNRESET).
FreeFd == [kind |-> "free", peer |-> -1, err |-> FALSE]

\* The kernel state the system calls act on.
Kernel == [tab |-> fdtab, rcv |-> rcv, reg |-> reg]

FreeFds(K) == {f \in Fd : K.tab[f].kind = "free"}

\* The lowest-numbered unused descriptor, as every allocating call returns.
LowestFree(K) ==
    CHOOSE f \in FreeFds(K) : \A g \in FreeFds(K) : f <= g

\* Give descriptor f the open file (kind, peer).
Install(K, f, kind, peer) ==
    [K EXCEPT !.tab[f] = [kind |-> kind, peer |-> peer, err |-> FALSE]]

\* close(fd): EBADF on an unused descriptor; closing a socket makes its peer
\* see end-of-file, drops what was queued for it and removes it from every
\* epoll instance; closing an epoll instance drops its registrations. A
\* socket closed while bytes queued for it are unread resets the connection:
\* its peer gets a pending error.
close(K, fd) ==
    IF fd \notin Fd \/ K.tab[fd].kind = "free"
    THEN K
    ELSE LET p == K.tab[fd].peer
             t1 == [K.tab EXCEPT ![fd] = FreeFd]
             t2 == IF p \in Fd
                   THEN [t1 EXCEPT ![p].peer = -1, ![p].err = (K.rcv[fd] # <<>>)]
                   ELSE t1
         IN  [tab |-> t2,
              rcv |-> [K.rcv EXCEPT ![fd] = <<>>],
              reg |-> {r \in K.reg : r.fd # fd /\ r.ep # fd}]

\* epoll_create1(0): -1 (EMFILE) when the descriptor table is full.
epoll_create1(K) ==
    IF FreeFds(K) = {}
    THEN [ret |-> -1, K |-> K]
    ELSE [ret |-> LowestFree(K), K |-> Install(K, LowestFree(K), "epoll", -1)]

\* socketpair(AF_UNIX, SOCK_STREAM, 0, endpoints): -1 (EMFILE) when fewer
\* than two descriptors are unused; otherwise two connected sockets.
\* endpoints[0] is the half the medium keeps ("int"), endpoints[1] the half
\* handed to the caller ("ext").
socketpair(K) ==
    IF Cardinality(FreeFds(K)) < 2
    THEN [ret |-> -1, a |-> 0, b |-> 0, K |-> K]
    ELSE LET a == LowestFree(K)
             Ka == Install(K, a, "int", -1)
             b == LowestFree(Ka)
         IN  [ret |-> 0, a |-> a, b |-> b,
              K |-> Install(Install(K, a, "int", b), b, "ext", a)]

\* epoll_ctl(epfd, EPOLL_CTL_ADD, fd, {EPOLLIN, data}): -1 when epfd is not
\* an open epoll instance (EBADF, EINVAL) or fd is already registered with
\* it (EEXIST).
epoll_ctl_add(K, epfd, fd, data) ==
    IF \/ epfd \notin Fd
       \/ K.tab[epfd].kind # "epoll"
       \/ \E r \in K.reg : r.ep = epfd /\ r.fd = fd
    THEN [ret |-> -1, K |-> K]
    ELSE [ret |-> 0,
          K |-> [K EXCEPT !.reg = @ \cup {[ep |-> epfd, fd |-> fd, data |-> data]}]]

IsSocket(K, fd) == fd \in Fd /\ K.tab[fd].kind \in {"int", "ext"}

\* The peer of a socket has been closed.
PeerClosed(K, fd) == K.tab[fd].peer = -1

\* The socket has a pending error: its peer was closed with bytes unread.
Reset(K, fd) == K.tab[fd].err

\* An event is reported for a socket with queued bytes (EPOLLIN) or whose
\* peer is closed (EPOLLIN, EPOLLHUP, and EPOLLERR after a reset).
Readable(K, fd) == IsSocket(K, fd) /\ (K.rcv[fd] # <<>> \/ PeerClosed(K, fd))

\* Room left in the transport towards the peer of fd.
Room(K, fd) == SOCK_CAPACITY - Len(K.rcv[K.tab[fd].peer])

Take(s, n) == SubSeq(s, 1, Min(n, Len(s)))
Drop(s, n) == SubSeq(s, Min(n, Len(s)) + 1, Len(s))

\* All orderings of n distinct elements of S.
RECURSIVE Orderings(_, _)
Orderings(S, n) ==
    IF n = 0 THEN {<<>>}
    ELSE UNION {{<<x>> \o o : o \in Orderings(S \ {x}, n - 1)} : x \in S}

\* A poll that reports every registered descriptor, ready or not.
Mut_epoll_wait(K, epfd, maxevents) ==
    LET all == {r \in K.reg : r.ep = epfd}
        n == Min(Cardinality(all), maxevents)
    IN  {[k \in 1 .. n |-> o[k].data] : o \in Orderings(all, n)}

\* epoll_wait(epfd, events, maxevents, 0): the possible results, each the
\* sequence of the data of the events returned. -1 (no events stored) when
\* epfd is no epoll instance; otherwise min(ready, maxevents) events, in an
\* order the interface does not specify.
epoll_wait(K, epfd, maxevents) ==
    IF epfd \notin Fd \/ K.tab[epfd].kind # "epoll"
    THEN {<<>>}
    ELSE LET ready == {r \in K.reg : r.ep = epfd /\ Readable(K, r.fd)}
             n == Min(Cardinality(ready), maxevents)
         IN  {[k \in 1 .. n |-> o[k].data] : o \in Orderings(ready, n)}

\* ------------------------------------------------------------------------
\* Bytes. The n-th byte written on the external half of slot s; distinct
\* senders write distinct bytes, so a received stream shows who sent what.
Byte(s, n) == 16 * (s + 1) + n
Sender(b) == (b \div 16) - 1
FromSender(q, s) == SelectSeq(q, LAMBDA b : Sender(b) = s)

NoBytes == [s \in Slot |-> <<>>]

\* The external half of the endpoint in slot s (-1 once it is closed).
Ext(s) == fdtab[sockets[s]].peer

Attached(s) == s \in Slot /\ s < clients

Live == st \in {"Unconfigured", "Configured", "ShutDown"}

\* ------------------------------------------------------------------------
\* phyAlloc: calloc gives a zeroed structure. The process starts with its
\* three standard descriptors open.
phyAlloc ==
    /\ st = "Unconfigured"
    /\ diag = ""
    /\ clients = 0
    /\ epoll = 0
    /\ sockets = [s \in Slot |-> 0]
    /\ fdtab = [f \in Fd |-> IF f < 3 THEN [kind |-> "std", peer |-> -1, err |-> FALSE]
                                ELSE FreeFd]
    /\ rcv = [f \in Fd |-> <<>>]
    /\ reg = {}
    /\ pc = "idle"
    /\ events = <<>>
    /\ ei = 0
    /\ buffer = <<>>
    /\ ri = 0
    /\ sizeWritten = 0
    /\ woken = FALSE
    /\ wrote = NoBytes
    /\ got = NoBytes
    /\ pend0 = NoBytes
    /\ got0 = NoBytes
    /\ nbytes = 0
    /\ nconf = 0
    /\ scratch = 0

\* The fields of a struct CircularBuffer after bufferFree.
NoBuffer == [data |-> "null", length |-> 0, readIndex |-> 0, writeIndex |-> 0]

NoCall == [op |-> "none", arg |-> 0, ret |-> 0, oom |-> "none"]

\* A newly allocated medium in a process that has made no circular buffer.
Init ==
    /\ phyAlloc
    /\ handle = "null"
    /\ circ = NoBuffer
    /\ frees = 0
    /\ bcall = NoCall
    /\ output = <<>>

\* exit(EXIT_FAILURE) after perror(msg), with the kernel state K at that
\* moment.
Die(msg, K) ==
    /\ st' = "Exited"
    /\ diag' = msg
    /\ fdtab' = K.tab
    /\ rcv' = K.rcv
    /\ reg' = K.reg

\* The process is ended by a signal: nothing is printed and exit is not
\* called.
Killed ==
    /\ st' = "Exited"
    /\ diag' = diag

SetKernel(K) ==
    /\ fdtab' = K.tab
    /\ rcv' = K.rcv
    /\ reg' = K.reg

\* The body of phyConfigure: the result of epoll_create1 is stored in
\* phy->epoll before it is tested.
Configure ==
    /\ pc = "idle"
    /\ nconf < MaxConfigure
    /\ nconf' = nconf + 1
    /\ LET r == epoll_create1(Kernel)
       IN  /\ epoll' = r.ret
           /\ IF r.ret = -1
              THEN /\ Die("Creating epoll instance", Kernel)
                   /\ UNCHANGED <<clients, sockets, callVars, scratch, bufVars,
                                  histVars, tickVars>>
              ELSE /\ SetKernel(r.K)
                   /\ st' = "Configured"
                   /\ UNCHANGED <<diag, clients, sockets, callVars, scratch,
                                  bufVars, histVars, tickVars>>

\* phyConfigure on a newly allocated medium, as main calls it, or on a
\* configured one: the function has no guard, the epoll instance the medium
\* had stays open with its registrations, and nothing names it any more.
phyConfigure ==
    /\ st \in {"Unconfigured", "Configured"}
    /\ Configure

\* phyConfigure on a medium that was shut down, to use it again.
phyReconfigure ==
    /\ st = "ShutDown"
    /\ Configure

\* The capacity test with an off-by-one: the table takes one endpoint more.
MutTableFull(c) == c = MAX_PHY_ENDPOINTS + 1

\* The capacity test of phyConnect.
TableFull(c) == c = MAX_PHY_ENDPOINTS

\* The event data registers the slot index instead of the descriptor.
MutEventData(fd, c) == c

\* events.data.fd of the registration phyConnect makes for its new internal
\* half fd while c endpoints are attached.
EventData(fd, c) == fd

\* phyConnect
phyConnect ==
    /\ Live
    /\ pc = "idle"
    /\ IF TableFull(clients)
       THEN /\ Die("Too many PHY clients", Kernel)
            /\ UNCHANGED <<phyVars, callVars, scratch, bufVars, nconf, histVars, tickVars>>
       ELSE LET sp == socketpair(Kernel)
                ctl == epoll_ctl_add(sp.K, epoll, sp.a, EventData(sp.a, clients))
            IN  IF sp.ret = -1
                THEN /\ Die("Create PHY socketpair", Kernel)
                     /\ UNCHANGED <<phyVars, callVars, scratch, bufVars, nconf, histVars, tickVars>>
                ELSE IF ctl.ret = -1
                THEN /\ Die("Register epoll on FD", sp.K)
                     /\ UNCHANGED <<phyVars, callVars, scratch, bufVars, nconf, histVars, tickVars>>
                ELSE /\ sockets' = [sockets EXCEPT ![clients] = sp.a]
                     /\ clients' = clients + 1
                     /\ SetKernel(ctl.K)
                     /\ UNCHANGED <<st, diag, epoll, callVars, scratch, bufVars, nconf, histVars, tickVars>>

\* The for loop without its test for socketFd: the sender is a recipient.
MutNextRecipient(from, socketFd) ==
    IF from >= clients THEN clients ELSE from

\* The for loop starting at i = 1: slot 0 is never a recipient.
MutSkipFirstRecipient(from, socketFd) ==
    LET S == {s \in Slot : s >= from /\ s >= 1 /\ s < clients /\ sockets[s] # socketFd}
    IN  IF S = {} THEN clients ELSE CHOOSE s \in S : \A q \in S : s <= q

\* The for loop of phyPropagateFromSocket: the first slot at or after from
\* whose socket is not socketFd; clients when there is none.
RECURSIVE NextRecipient(_, _)
NextRecipient(from, socketFd) ==
    IF from >= clients THEN clients
    ELSE IF sockets[from] = socketFd THEN NextRecipient(from + 1, socketFd)
    ELSE from

\* malloc(PHY_BUFFER_SIZE) at the head of phyPropagateFromSocket: it fails,
\* or one more scratch buffer is allocated (n counts them). No free follows
\* anywhere in the function.
Malloc(n) == {[ok |-> FALSE, n |-> n], [ok |-> TRUE, n |-> Min(n + 1, MaxScratch)]}

\* The head of phyPropagateFromSocket: the process ends when the scratch
\* buffer cannot be allocated.
Enter ==
    \E m \in Malloc(scratch) :
        /\ scratch' = m.n
        /\ IF m.ok
           THEN UNCHANGED <<st, diag>>
           ELSE st' = "Exited" /\ diag' = "Allocate propagation buffer."

\* phyPropagate, up to the return of epoll_wait: with no event the loop
\* body never runs and the call returns; otherwise phyPropagateFromSocket is
\* entered for the first event.
phyPropagate ==
    /\ Live
    /\ pc = "idle"
    /\ \E evs \in epoll_wait(Kernel, epoll, MAX_EPOLL_EVENTS) :
          /\ events' = evs
          /\ IF evs = <<>>
             THEN /\ pc' = "idle" /\ ei' = 0
                  /\ UNCHANGED <<st, diag, scratch>>
             ELSE /\ pc' = "read" /\ ei' = 1
                  /\ Enter
    /\ pend0' = [s \in Slot |-> IF Attached(s) THEN rcv[sockets[s]] ELSE <<>>]
    /\ got0' = got
    /\ UNCHANGED nbytes
    /\ buffer' = <<>>
    /\ ri' = 0
    /\ sizeWritten' = 0
    /\ UNCHANGED <<woken, phyVars, kernelVars, histVars, bufVars, nconf>>

\* read(socketFd, buffer, PHY_BUFFER_SIZE) on a blocking socket can return:
\* queued bytes, or 0 at end-of-file, or -1 on a descriptor that is no
\* socket. With nothing queued and the peer open it does not return.
ReadReturns(K, fd) == ~IsSocket(K, fd) \/ K.rcv[fd] # <<>> \/ PeerClosed(K, fd)

\* read returns -1: the descriptor is no socket, or nothing is queued and
\* the connection was reset (ECONNRESET). Queued bytes are read first.
ReadFails(K, fd) == ~IsSocket(K, fd) \/ (K.rcv[fd] = <<>> /\ Reset(K, fd))

\* A read that returns the pending error of a socket also clears it.
ClearErr(K, fd) == IF IsSocket(K, fd) THEN [K EXCEPT !.tab[fd].err = FALSE] ELSE K

\* One turn of the while loop of phyPropagateFromSocket, up to the first
\* write: read a chunk from events[ei]; end the process when the read
\* fails; stop at end-of-file (and enter phyPropagateFromSocket for the next
\* event or return from phyPropagate); otherwise start the for loop over
\* the recipients.
phyPropagateFromSocket ==
    /\ Live
    /\ pc = "read"
    /\ LET socketFd == events[ei]
       IN  /\ ReadReturns(Kernel, socketFd)
           /\ IF ReadFails(Kernel, socketFd)
              THEN /\ Die("Read from PHY socket", ClearErr(Kernel, socketFd))
                   /\ UNCHANGED <<phyVars, callVars, scratch, bufVars, nconf, histVars, tickVars>>
              ELSE IF rcv[socketFd] = <<>>
              THEN /\ IF ei < Len(events)
                      THEN /\ pc' = "read" /\ ei' = ei + 1
                           /\ Enter
                      ELSE /\ pc' = "idle" /\ ei' = 0
                           /\ UNCHANGED <<st, diag, scratch>>
                   /\ UNCHANGED <<phyVars, kernelVars, events,
                                  buffer, ri, sizeWritten, woken, histVars, pend0, got0,
                                  nbytes, bufVars, nconf>>
              ELSE /\ buffer' = Take(rcv[socketFd], PHY_BUFFER_SIZE)
                   /\ rcv' = [rcv EXCEPT ![socketFd] = Drop(@, PHY_BUFFER_SIZE)]
                   /\ ri' = NextRecipient(0, socketFd)
                   /\ sizeWritten' = 0
                   /\ pc' = IF ri' < clients THEN "write" ELSE "read"
                   /\ UNCHANGED <<st, diag, phyVars, fdtab, reg, events, ei, woken,
                                  histVars, tickVars, scratch, bufVars, nconf>>

\* The start of the buffer whatever has been written: the offset is lost.
MutWriteSlice(buf, off, n) == SubSeq(buf, 1, n)

\* buffer + sizeWritten, for n bytes.
WriteSlice(buf, off, n) == SubSeq(buf, off + 1, off + n)

\* The call is at the write() of writeToSocket, which cannot return: the
\* transport towards the external half of recipient ri has no room and that
\* half is open. The process is then either asleep inside write() (line
\* 125) or still on its way to it (the printf of line 124).
WriteWaits ==
    /\ Live
    /\ pc = "write"
    /\ IsSocket(Kernel, sockets[ri])
    /\ ~PeerClosed(Kernel, sockets[ri])
    /\ Room(Kernel, sockets[ri]) <= 0

\* One turn of the while loop of writeToSocket for recipient ri: write()
\* accepts between one byte and what is left of the chunk, as far as the
\* transport has room; with no room it does not return. It returns -1, and
\* the process exits with the diagnostic, on a descriptor that is no socket
\* and when the peer was closed while the process was asleep in the call
\* (it is woken with ECONNRESET, which clears the error of the socket). A write begun towards a closed peer fails with
\* EPIPE and raises SIGPIPE: the program never sets the disposition of the
\* signal, so with the default the process is ended by it before write
\* returns, and with SIGPIPE inherited as ignored write returns -1. After
\* the last byte of the chunk the for loop moves to the next recipient, and
\* after the last recipient phyPropagateFromSocket reads again.
writeToSocket ==
    /\ Live
    /\ pc = "write"
    /\ LET socketFd == sockets[ri]
           length == Len(buffer)
       IN  IF ~IsSocket(Kernel, socketFd) \/ woken
           THEN /\ Die("Write to PHY socket", ClearErr(Kernel, socketFd))
                /\ UNCHANGED <<phyVars, callVars, scratch, bufVars, nconf, histVars, tickVars>>
           ELSE IF PeerClosed(Kernel, socketFd)
           THEN /\ \/ Killed /\ UNCHANGED kernelVars
                   \/ Die("Write to PHY socket", Kernel)
                /\ UNCHANGED <<phyVars, callVars, scratch, bufVars, nconf,
                               histVars, tickVars>>
           ELSE \E result \in 1 .. Min(Room(Kernel, socketFd), length - sizeWritten) :
                LET data == WriteSlice(buffer, sizeWritten, result)
                    done == sizeWritten + result >= length
                    nxt == NextRecipient(ri + 1, events[ei])
                IN  /\ rcv' = [rcv EXCEPT ![fdtab[socketFd].peer] = @ \o data]
                    /\ got' = [got EXCEPT ![ri] = @ \o data]
                    /\ sizeWritten' = IF done THEN 0 ELSE sizeWritten + result
                    /\ ri' = IF done THEN nxt ELSE ri
                    /\ pc' = IF done /\ nxt >= clients THEN "read" ELSE "write"
                    /\ UNCHANGED <<st, diag, phyVars, fdtab, reg, events, ei, woken,
                                   buffer, wrote, tickVars, scratch, bufVars, nconf>>

\* The loop of phyShutdown: close sockets[i] for i = from .. n-1.
RECURSIVE CloseSockets(_, _, _)
CloseSockets(K, from, n) ==
    IF from >= n THEN K
    ELSE CloseSockets(close(K, sockets[from]), from + 1, n)

\* The loop stopping one slot early: the last slot keeps its descriptor.
MutResetSockets(n) == [s \in Slot |-> IF s < n - 1 THEN 0 ELSE sockets[s]]

\* The table after the loop of phyShutdown: slots below n are set to 0.
ResetSockets(n) == [s \in Slot |-> IF s < n THEN 0 ELSE sockets[s]]

\* phyShutdown
phyShutdown ==
    /\ Live
    /\ pc = "idle"
    /\ SetKernel(CloseSockets(close(Kernel, epoll), 0, clients))
    /\ sockets' = ResetSockets(clients)
    /\ clients' = 0
    /\ epoll' = 0
    /\ st' = "ShutDown"
    /\ wrote' = NoBytes
    /\ got' = NoBytes
    /\ pend0' = NoBytes
    /\ got0' = NoBytes
    /\ UNCHANGED <<diag, callVars, scratch, bufVars, nconf, nbytes>>

\* phyFree: the memory is released, nothing else is done.
phyFree ==
    /\ Live
    /\ pc = "idle"
    /\ st' = "Freed"
    /\ UNCHANGED <<diag, phyVars, kernelVars, callVars, scratch, bufVars, nconf, histVars, tickVars>>

\* ------------------------------------------------------------------------
\* The owners of the external halves.

\* write(fd, ..., n) on the external half of slot s, as main does on fd1.
ExtWrite(s, n) ==
    /\ Live
    /\ Attached(s)
    /\ Ext(s) # -1
    /\ nbytes + n <= MaxWrite
    /\ n <= SOCK_CAPACITY - Len(rcv[sockets[s]])
    /\ LET data == [k \in 1 .. n |-> Byte(s, Len(wrote[s]) + k)]
       IN  /\ wrote' = [wrote EXCEPT ![s] = @ \o data]
           /\ rcv' = [rcv EXCEPT ![sockets[s]] = @ \o data]
    /\ nbytes' = nbytes + n
    /\ UNCHANGED <<st, diag, phyVars, fdtab, reg, callVars, scratch, bufVars, nconf, got, pend0, got0>>

\* read of everything queued on the external half of slot s.
ExtRead(s) ==
    /\ Live
    /\ Attached(s)
    /\ Ext(s) # -1
    /\ rcv[Ext(s)] # <<>>
    /\ rcv' = [rcv EXCEPT ![Ext(s)] = <<>>]
    /\ UNCHANGED <<st, diag, phyVars, fdtab, reg, callVars, scratch, bufVars, nconf, histVars, tickVars>>

\* close of an external half by its owner. When the medium is at a write()
\* towards that half that cannot return, the close either finds the process
\* asleep inside write() and wakes it, or comes before write() is entered,
\* which is then a write begun towards a closed peer.
ExtClose(f) ==
    /\ Live
    /\ fdtab[f].kind = "ext"
    /\ SetKernel(close(Kernel, f))
    /\ IF WriteWaits /\ fdtab[sockets[ri]].peer = f
       THEN woken' \in BOOLEAN
       ELSE woken' = woken
    /\ UNCHANGED <<st, diag, phyVars, pc, events, ei, buffer, ri, sizeWritten,
                   scratch, bufVars, nconf, histVars, tickVars>>

Next ==
    \/ phyConfigure
    \/ phyConnect
    \/ phyPropagate
    \/ phyPropagateFromSocket
    \/ writeToSocket
    \/ phyShutdown
    \/ phyFree
    \/ \E s \in Slot, n \in 1 .. MaxWrite : ExtWrite(s, n)
    \/ \E s \in Slot : ExtRead(s)
    \/ \E f \in Fd : ExtClose(f)

\* A medium up to its shutdown, with data on the external halves;
\* phyConfigure may be called again while the medium is configured.
Spec == Init /\ [][Next]_vars

\* The same, with the scheduling that the event loop of the specification
\* provides: the caller keeps calling phyPropagate, a call under way takes
\* every system call that can return, and every owner of an external half
\* keeps reading it.
SpecFair ==
    /\ Init
    /\ [][Next]_vars
    /\ WF_vars(phyPropagate)
    /\ WF_vars(phyPropagateFromSocket)
    /\ WF_vars(writeToSocket)
    /\ \A s \in Slot : WF_vars(ExtRead(s))

\* Media that are configured again after a shutdown; no data is written.
NextReuse ==
    \/ phyConfigure
    \/ phyReconfigure
    \/ phyConnect
    \/ phyPropagate
    \/ phyPropagateFromSocket
    \/ phyShutdown
    \/ phyFree
    \/ \E f \in Fd : ExtClose(f)

SpecReuse == Init /\ [][NextReuse]_vars

\* ------------------------------------------------------------------------
\* The circular buffer of buffer.c. The byte stored at index i of the data
\* store is written i, so that a sequence of bytes shows where they came
\* from.

phyAll == <<st, diag, phyVars, kernelVars, callVars, histVars, tickVars, nconf,
           scratch>>

\* The initialisation leaves the write index at the end of the store.
MutFreshBuffer(length) ==
    [data |-> "store", length |-> length, readIndex |-> 0, writeIndex |-> length - 1]

\* The struct bufferAlloc returns when both allocations succeed.
FreshBuffer(length) ==
    [data |-> "store", length |-> length, readIndex |-> 0, writeIndex |-> 0]

\* The test of bufferIsEmpty.
IsEmpty(b) == b.readIndex = b.writeIndex

\* The wrapped branch forgets the capacity.
MutItems(b, itemSize) ==
    IF IsEmpty(b) THEN 0
    ELSE IF b.writeIndex > b.readIndex
    THEN (b.writeIndex - b.readIndex) \div itemSize
    ELSE (b.readIndex - b.writeIndex) \div itemSize

\* The value bufferItems returns.
Items(b, itemSize) ==
    IF IsEmpty(b) THEN 0
    ELSE IF b.writeIndex > b.readIndex
    THEN (b.writeIndex - b.readIndex) \div itemSize
    ELSE (b.length - (b.readIndex - b.writeIndex)) \div itemSize

\* The data pointer is left dangling.
MutFreedBuffer(b) == [b EXCEPT !.length = 0, !.readIndex = 0, !.writeIndex = 0]

\* The fields of a struct after bufferFree.
FreedBuffer(b) ==
    [b EXCEPT !.length = 0, !.readIndex = 0, !.writeIndex = 0, !.data = "null"]

\* free(buffer->data) happens in bufferFree only for a non-null pointer.
FreesOf(b, n) == IF b.data # "null" THEN Min(n + 1, 2) ELSE n

\* bufferAlloc(length): either malloc can fail. When the second does, the
\* new struct goes through bufferFree and NULL is returned; the struct
\* itself is never released.
bufferAlloc(length) ==
    /\ length > 0
    /\ \E oom \in {"none", "struct", "data"} :
          /\ bcall' = [op |-> "bufferAlloc", arg |-> length,
                       ret |-> IF oom = "none" THEN 1 ELSE 0, oom |-> oom]
          /\ handle' = IF oom = "none" THEN "buf" ELSE "null"
          /\ IF oom = "struct"
             THEN UNCHANGED <<circ, frees>>
             ELSE IF oom = "data"
             THEN LET b == [FreshBuffer(length) EXCEPT !.data = "null"]
                  IN  circ' = FreedBuffer(b) /\ frees' = FreesOf(b, 0)
             ELSE circ' = FreshBuffer(length) /\ frees' = 0
    /\ UNCHANGED <<output, phyAll>>

\* bufferFree(handle)
bufferFree ==
    /\ bcall' = [op |-> "bufferFree", arg |-> 0, ret |-> 0, oom |-> "none"]
    /\ IF handle = "null"
       THEN UNCHANGED <<circ, frees>>
       ELSE circ' = FreedBuffer(circ) /\ frees' = FreesOf(circ, frees)
    /\ UNCHANGED <<handle, output, phyAll>>

\* bufferIsEmpty(handle); the handle is dereferenced.
bufferIsEmpty ==
    /\ handle # "null"
    /\ bcall' = [op |-> "bufferIsEmpty", arg |-> 0,
                 ret |-> IF IsEmpty(circ) THEN 1 ELSE 0, oom |-> "none"]
    /\ UNCHANGED <<handle, circ, frees, output, phyAll>>

\* bufferItems(handle, itemSize)
bufferItems(itemSize) ==
    /\ handle # "null"
    /\ itemSize > 0
    /\ bcall' = [op |-> "bufferItems", arg |-> itemSize,
                 ret |-> Items(circ, itemSize), oom |-> "none"]
    /\ UNCHANGED <<handle, circ, frees, output, phyAll>>

\* bufferRead(handle, n, output): after its assertions the body computes a
\* local from bufferItems and ends. Nothing is copied, no index moves, and
\* control reaches the end of a function that returns size_t without a
\* return statement, so the value the caller receives is indeterminate.
bufferRead(n) ==
    /\ handle # "null"
    /\ n > 0
    /\ \E v \in 0 .. MaxRead :
          bcall' = [op |-> "bufferRead", arg |-> n, ret |-> v, oom |-> "none"]
    /\ UNCHANGED <<handle, circ, frees, output, phyAll>>

\* Every buffer with capacity up to MaxCap and indices inside the store, in
\* the hands of a caller.
InitBuffer ==
    /\ phyAlloc
    /\ handle = "buf"
    /\ \E C \in 1 .. MaxCap : \E r, w \in 0 .. (C - 1) :
          circ = [data |-> "store", length |-> C, readIndex |-> r, writeIndex |-> w]
    /\ frees = 0
    /\ bcall = NoCall
    /\ output = <<>>

NextBuffer ==
    \/ \E length \in 1 .. MaxCap : bufferAlloc(length)
    \/ bufferFree
    \/ bufferIsEmpty
    \/ \E itemSize \in 1 .. MaxItem : bufferItems(itemSize)
    \/ \E n \in 1 .. MaxRead : bufferRead(n)

SpecBuffer == InitBuffer /\ [][NextBuffer]_vars
\* ------------------------------------------------------------------------
\* Vocabulary of the properties.

IsPrefix(p, q) == Len(p) <= Len(q) /\ SubSeq(q, 1, Len(p)) = p
IsSuffix(p, q) == Len(p) <= Len(q) /\ SubSeq(q, Len(q) - Len(p) + 1, Len(q)) = p

\* The endpoints that had pending data when the current tick polled.
Senders0 == {s \in Slot : pend0[s] # <<>>}

\* What slot r has been delivered since the current tick polled.
New(r) == SubSeq(got[r], Len(got0[r]) + 1, Len(got[r]))

\* The tick is inside the drain loop of the endpoint in slot e and has
\* taken everything e had written: nothing is left in its socket.
Drained(e) ==
    /\ Live
    /\ pc = "read"
    /\ Attached(e)
    /\ events[ei] = sockets[e]
    /\ rcv[sockets[e]] = <<>>

\* The call has come to rest: it has returned, or it waits in a read that
\* does not return.
AtRest ==
    /\ Live
    /\ \/ pc = "idle"
       \/ pc = "read" /\ ~ReadReturns(Kernel, events[ei])

\* C1: broadcast relay without self-delivery. When a tick polled while
\* exactly one attached endpoint e had pending bytes B (and at least two
\* endpoints were attached), then once the tick has drained e, with e having
\* written nothing more, every other attached endpoint has been delivered
\* exactly B on top of what it had, and e has been delivered nothing.
C1_BroadcastRelay ==
    \A e \in Slot :
        (/\ Senders0 = {e}
         /\ clients >= 2
         /\ Drained(e)
         /\ IsSuffix(pend0[e], wrote[e]))
        => /\ got[e] = got0[e]
           /\ \A r \in Slot : (Attached(r) /\ r # e) => got[r] = got0[r] \o pend0[e]

\* The scenario of the specification, scaled: three endpoints, three bytes
\* (more than one chunk) written on one of them, both others hold them.
C1_Witness ==
    \E e \in Slot :
        /\ Senders0 = {e}
        /\ clients = 3
        /\ Drained(e)
        /\ Len(pend0[e]) = 3
        /\ wrote[e] = pend0[e]
        /\ got[e] = <<>>
        /\ \A r \in Slot \ {e} : got[r] = pend0[e]

\* C2: cross-delivery with several senders in one tick. When a tick polled
\* while two or more endpoints had pending bytes, then once the call is at
\* rest every attached endpoint has been delivered what every other sender
\* had pending, and none of its own bytes.
C2_CrossDelivery ==
    (Cardinality(Senders0) >= 2 /\ AtRest)
    => \A r \in Slot :
          Attached(r) =>
             /\ FromSender(New(r), r) = <<>>
             /\ \A s \in Senders0 \ {r} : IsPrefix(pend0[s], FromSender(New(r), s))

\* C3: per-sender order. In every state, what an attached endpoint r has
\* been delivered from another endpoint s is a prefix of what s wrote.
C3_PerSenderOrder ==
    \A s \in Slot, r \in Slot :
        (Attached(s) /\ Attached(r) /\ r # s)
        => IsPrefix(FromSender(got[r], s), wrote[s])

\* A sender whose data spans more than one chunk, while writeToSocket is in
\* the middle of a chunk of which the transport took only a part.
C3_Witness ==
    /\ Live
    /\ pc = "write"
    /\ sizeWritten > 0
    /\ sizeWritten < Len(buffer)
    /\ got[ri] # <<>>
    /\ \E s \in Slot :
          /\ events[ei] = sockets[s]
          /\ Len(wrote[s]) > PHY_BUFFER_SIZE
          /\ rcv[sockets[s]] # <<>>
          /\ FromSender(got[ri], s) = Take(wrote[s], sizeWritten)

\* C4: phyPropagate terminates. While every external half is open, the
\* drain loop never waits in a read that does not return: with no more data
\* available it stops.
C4_DrainLoopStops ==
    (/\ Live
     /\ pc = "read"
     /\ \A s \in Slot : Attached(s) => Ext(s) # -1)
    => ReadReturns(Kernel, events[ei])

\* No byte that slot s had pending at the poll is still in its socket.
TakenSincePoll(s) ==
    \A k \in 1 .. Len(pend0[s]) :
        \A j \in 1 .. Len(rcv[sockets[s]]) : rcv[sockets[s]][j] # pend0[s][k]

\* C5: one tick covers every ready endpoint. Once the call is at rest, the
\* bytes that each endpoint had pending at the poll have been taken from its
\* socket and delivered to every other attached endpoint.
C5_TickCoversAllReady ==
    AtRest
    => \A s \in Senders0 :
          /\ TakenSincePoll(s)
          /\ \A r \in Slot :
                (Attached(r) /\ r # s) => IsPrefix(pend0[s], FromSender(New(r), s))

C7_AttachFailureReported ==
    ~(/\ st = "Exited"
      /\ diag \in {"Too many PHY clients", "Create PHY socketpair",
                   "Register epoll on FD"})

\* C8: shutdown post-state. A phyShutdown on a configured medium closes the
\* epoll descriptor and every internal half in the table, leaves every other
\* descriptor (the external halves among them) as it was, and leaves count,
\* epoll field and table as phyAlloc made them.
C8_ShutdownPostState ==
    [][(phyShutdown /\ st = "Configured") =>
          /\ fdtab'[epoll].kind = "free"
          /\ \A s \in Slot : Attached(s) => fdtab'[sockets[s]].kind = "free"
          /\ \A f \in Fd :
                (f # epoll /\ \A s \in Slot : Attached(s) => f # sockets[s])
                => fdtab'[f].kind = fdtab[f].kind
          /\ reg' = {}
          /\ clients' = 0
          /\ epoll' = 0
          /\ sockets' = [s \in Slot |-> 0]]_vars

\* A medium that was shut down with endpoints attached (an external half
\* outlives its internal half) is configured and has endpoints again.
C8_Witness ==
    /\ st = "Configured"
    /\ clients >= 1
    /\ \A s \in Slot : Attached(s) => fdtab[sockets[s]].kind = "int"
    /\ \E f \in Fd : fdtab[f].kind = "ext" /\ fdtab[f].peer = -1

\* C9: phyShutdown is idempotent. A phyShutdown on a medium that was shut
\* down changes neither the medium nor any descriptor.
C9_ShutdownIdempotent ==
    [][(phyShutdown /\ st = "ShutDown") =>
          /\ UNCHANGED <<clients, epoll, sockets>>
          /\ fdtab' = fdtab]_vars

\* C10: destroy without shutdown does not leak. After phyFree no epoll
\* descriptor and no internal half is open.
C10_FreeDoesNotLeak ==
    st = "Freed" => \A f \in Fd : fdtab[f].kind \notin {"epoll", "int"}
\* No attached endpoint has bytes waiting in its internal socket.
NothingPending == \A s \in Slot : Attached(s) => rcv[sockets[s]] = <<>>

\* What a tick with nothing to relay must leave alone: the medium, the
\* descriptors, every queue and registration, what was delivered, and the
\* process itself.
NoOpFrame ==
    UNCHANGED <<st, diag, clients, epoll, sockets, fdtab, rcv, reg, got>>

\* The process has ended for want of memory for a scratch buffer.
OutOfMemory == st = "Exited" /\ diag = "Allocate propagation buffer."

\* C11: propagate with nothing pending is a no-op. A phyPropagate called
\* while no attached endpoint has pending data, and every step of that call,
\* changes nothing of the medium, the descriptors, the queues, the
\* registrations and the delivered bytes, ends no process, writes to no
\* endpoint, and never comes to a read that does not return. The steps in
\* which the scratch buffer cannot be allocated are left aside.
C11_IdlePropagateNoOp ==
    [][/\ (phyPropagate /\ NothingPending /\ ~OutOfMemory') =>
             /\ NoOpFrame
             /\ pc' \in {"idle", "read"}
             /\ pc' = "read" => ReadReturns(Kernel', events'[ei'])
       /\ (phyPropagateFromSocket /\ Senders0 = {} /\ ~OutOfMemory') =>
             /\ NoOpFrame
             /\ pc' \in {"idle", "read"}
             /\ pc' = "read" => ReadReturns(Kernel', events'[ei'])]_vars

\* A tick that found nothing pending is under way on a medium with two
\* endpoints, one of them at end-of-file.
C11_Witness ==
    /\ st = "Configured"
    /\ pc = "read"
    /\ Senders0 = {}
    /\ NothingPending
    /\ clients >= 2
    /\ got = got0

\* C12: a failing recipient does not block the others. A failed write to a
\* recipient never ends the process: it is never the case that the process
\* has ended inside writeToSocket.
C12_WriteFailureReported ==
    ~(st = "Exited" /\ pc = "write")
\* The slot of the endpoint the tick is draining.
SenderSlot == CHOOSE s \in Slot : sockets[s] = events[ei]

\* Slot r has been delivered the current chunk, as the last thing it got.
HasChunk(r) == IsSuffix(buffer, got[r])

\* Slot r has been delivered no byte of the current chunk.
LacksChunk(r) ==
    \A k \in 1 .. Len(buffer) : \A j \in 1 .. Len(got[r]) : got[r][j] # buffer[k]

\* writeToSocket waits: the transport of recipient ri is full and its
\* external half is open.
Stalled ==
    /\ Live
    /\ pc = "write"
    /\ ~PeerClosed(Kernel, sockets[ri])
    /\ Len(rcv[Ext(ri)]) >= SOCK_CAPACITY

\* C19: a recipient that does not accept data stalls the whole call. While
\* writeToSocket waits for recipient ri, every recipient before ri in slot
\* order holds the current chunk, every recipient after ri holds none of it,
\* ri holds the part written so far; and no step taken from such a state
\* moves the call or delivers a byte to anyone: the call goes on only after
\* the external half of ri has been read or closed.
C19_SlowRecipientStalls ==
    [][Stalled =>
          /\ \A r \in Slot :
                (Attached(r) /\ r # SenderSlot) =>
                   /\ r < ri => HasChunk(r)
                   /\ r > ri => LacksChunk(r)
          /\ IsSuffix(Take(buffer, sizeWritten), got[ri])
          /\ pc' = "write"
          /\ ri' = ri
          /\ sizeWritten' = sizeWritten
          /\ got' = got
          /\ Len(rcv'[Ext(ri)]) <= Len(rcv[Ext(ri)])
          /\ st' = st]_vars

\* Three endpoints, slot 0 sends: the call waits for slot 1, whose transport
\* is full, and slot 2 holds nothing of the chunk.
C19_Witness ==
    /\ Stalled
    /\ clients = 3
    /\ SenderSlot = 0
    /\ ri = 1
    /\ buffer # <<>>
    /\ Len(rcv[Ext(1)]) = SOCK_CAPACITY
    /\ LacksChunk(2)
    /\ Ext(2) # -1
\* Every attached endpoint has been delivered all that every other attached
\* endpoint wrote.
AllDelivered ==
    \A s \in Slot, r \in Slot :
        (Attached(s) /\ Attached(r) /\ r # s) => FromSender(got[r], s) = wrote[s]

\* The medium is no longer in use, or an external half has been closed.
Disrupted ==
    \/ st # "Configured"
    \/ \E s \in Slot : Attached(s) /\ Ext(s) = -1

\* C17: eventual delivery under repeated ticks. On a medium that stays
\* configured with every external half open, again and again everything
\* written has been delivered to every other endpoint.
C17_EventualDelivery == []<>(AllDelivered \/ Disrupted)
\* The internal half in slot s is registered exactly once with the epoll
\* instance of the medium, with event data naming that same descriptor.
RegisteredOnce(s) ==
    /\ Cardinality({r \in reg : r.ep = epoll /\ r.fd = sockets[s]}) = 1
    /\ \A r \in reg : (r.ep = epoll /\ r.fd = sockets[s]) => r.data = sockets[s]

\* The table of a configured medium: open, pairwise distinct internal halves,
\* each registered once; a tick under way reads from one of them.
TableRegistered ==
    st = "Configured" =>
       /\ \A s \in Slot :
             Attached(s) =>
                /\ fdtab[sockets[s]].kind = "int"
                /\ RegisteredOnce(s)
                /\ \A q \in Slot : (Attached(q) /\ q # s) => sockets[q] # sockets[s]
       /\ Cardinality({r \in reg : r.ep = epoll}) = clients
       /\ pc # "idle" => \E s \in Slot : Attached(s) /\ events[ei] = sockets[s]

\* C18: registration and slot stability. Every step leads to a state with
\* such a table, and no step of a configured medium that stays configured
\* changes the descriptor stored in the slot of an attached endpoint.
C18_RegistrationAndSlots ==
    [][/\ TableRegistered'
       /\ (st = "Configured" /\ st' = "Configured") =>
             \A s \in Slot : Attached(s) => sockets'[s] = sockets[s]]_vars

\* A full table on a medium that is in use for the second time, with a tick
\* reading from one of its endpoints.
C18_Witness ==
    /\ st = "Configured"
    /\ clients = MAX_PHY_ENDPOINTS
    /\ pc = "read"
    /\ \E s \in Slot : events[ei] = sockets[s] /\ RegisteredOnce(s)
    /\ \E f \in Fd : fdtab[f].kind = "ext" /\ fdtab[f].peer = -1 /\ f < sockets[2]
\* C20: scratch-buffer balance. Whenever no phyPropagate call is under way,
\* no scratch buffer of phyPropagateFromSocket is still allocated.
C20_ScratchBalanced == (pc = "idle") => scratch = 0
\* ------------------------------------------------------------------------
\* The circular buffer.

\* The bytes queued in b, by the indices alone.
Occupancy(b) == (b.writeIndex - b.readIndex) % b.length

\* C13: a fresh buffer is empty. After a successful bufferAlloc(C) the
\* caller holds a buffer with readIndex = writeIndex = 0 and length C that
\* tests empty and holds 0 items of size 1; and bufferIsEmpty returns true
\* exactly when readIndex equals writeIndex.
C13_FreshBufferEmpty ==
    /\ (bcall.op = "bufferAlloc" /\ bcall.ret = 1) =>
          /\ handle = "buf"
          /\ circ.data = "store"
          /\ circ.length = bcall.arg
          /\ circ.readIndex = 0
          /\ circ.writeIndex = 0
          /\ IsEmpty(circ)
          /\ Items(circ, 1) = 0
    /\ bcall.op = "bufferIsEmpty" =>
          (bcall.ret = 1 <=> circ.readIndex = circ.writeIndex)

\* A buffer of more than one byte has just been allocated.
C13_Witness ==
    /\ bcall.op = "bufferAlloc"
    /\ bcall.ret = 1
    /\ bcall.arg > 1
    /\ circ.length = bcall.arg

\* C14: occupancy formula. bufferItems(buffer, itemSize) on a buffer of
\* capacity C > 0 returns ((writeIndex - readIndex) mod C) divided by
\* itemSize, rounded down.
C14_OccupancyFormula ==
    (bcall.op = "bufferItems" /\ circ.length > 0) =>
       bcall.ret = Occupancy(circ) \div bcall.arg

\* The write index has wrapped below the read index: capacity 8, readIndex
\* 3, writeIndex 1, and 6 bytes are reported.
C14_Witness ==
    /\ bcall.op = "bufferItems"
    /\ bcall.arg = 1
    /\ circ.length = 8
    /\ circ.readIndex = 3
    /\ circ.writeIndex = 1
    /\ bcall.ret = 6

\* The bytes a read of m bytes delivers from b, in queue order.
ReadBytes(b, m) == [k \in 1 .. m |-> (b.readIndex + k - 1) % b.length]

\* C15: buffer read contract. bufferRead(buffer, n, output) copies
\* min(n, occupancy) bytes from readIndex on, wrapping at the capacity, into
\* output, advances readIndex by that count modulo the capacity, leaves
\* writeIndex unchanged and returns that count.
C15_ReadContract ==
    [][\A n \in 1 .. MaxRead :
          (bufferRead(n) /\ circ.length > 0) =>
             LET m == Min(n, Occupancy(circ))
             IN  /\ output' = ReadBytes(circ, m)
                 /\ circ'.readIndex = (circ.readIndex + m) % circ.length
                 /\ circ'.writeIndex = circ.writeIndex
                 /\ bcall'.ret = m]_vars

\* C16: buffer teardown. bufferFree on a live buffer frees its store once
\* and zeroes length, readIndex, writeIndex and the data pointer, after
\* which the buffer tests empty and holds 0 items of any size; on a null
\* handle or a destroyed buffer it changes nothing and frees nothing. The
\* struct that bufferAlloc tears down when the store cannot be allocated is
\* in the same destroyed state, with nothing freed. No store is ever freed
\* twice.
C16_Teardown ==
    [][/\ (bufferFree /\ handle # "null" /\ circ.data # "null") =>
             /\ frees' = frees + 1
             /\ circ' = NoBuffer
             /\ IsEmpty(circ')
             /\ \A k \in 1 .. MaxItem : Items(circ', k) = 0
       /\ (bufferFree /\ (handle = "null" \/ circ.data = "null")) =>
             /\ circ' = circ
             /\ frees' = frees
       /\ (bcall'.op = "bufferAlloc" /\ bcall'.oom = "data") =>
             /\ circ' = NoBuffer
             /\ frees' = 0
             /\ handle' = "null"
       /\ frees' <= 1]_vars

\* A live buffer has been destroyed by bufferFree; the caller still holds
\* its handle, and further calls of bufferFree lead to this same state.
C16_Witness ==
    /\ bcall.op = "bufferFree"
    /\ handle = "buf"
    /\ circ = NoBuffer
    /\ frees = 1
====
